---------------------------- MODULE Spec2Model ----------------------------
(***************************************************************************)
(* A model of the ONNX multi-head text classifier scripts:                  *)
(*   scripts/onnx_train.py  (training, calibration, bundle export)          *)
(*   scripts/onnx_eval.py   (bundle discovery, session build, evaluation)   *)
(*                                                                         *)
(* Floating-point values are modelled in fixed point: an integer v stands   *)
(* for v * 1e-6 ("micro" units).  Values that need a finer grain (the       *)
(* calibration parameters against the 1e-9 tolerance, the 1e-10 epsilon of  *)
(* the logit denominator) carry a second limb r in units of 1e-10           *)
(* ("ticks").  ln and exp are computed by range reduction and power series  *)
(* in integer arithmetic that stays inside 32 bits.                         *)
(***************************************************************************)
EXTENDS Integers, Sequences, FiniteSets, TLC

(***************************************************************************)
(* Fixed-point arithmetic                                                   *)
(***************************************************************************)

\* 1.0 in micro units
One == 1000000

\* sqrt(One): the limb used to split a product so that it stays in 32 bits
Limb == 10 ^ 3

\* ln(2) and ln(10) in micro units
Ln2 == 693147

Ln10 == 2302585

\* 1e-6 expressed in ticks of 1e-10
TicksPerMicro == 10 ^ 4

Abs(x) == IF x < 0 THEN -x ELSE x

Sign(x) == IF x < 0 THEN -1 ELSE IF x > 0 THEN 1 ELSE 0

\* x * y for fixed-point x, y (rounded); |x|/Limb * |y|/Limb must fit 32 bits
MulFix(x, y) ==
    LET ax == Abs(x)
        ay == Abs(y)
        xh == ax \div Limb
        xl == ax % Limb
        yh == ay \div Limb
        yl == ay % Limb
        t  == xh * yl + xl * yh
        lo == (t + ((xl * yl + Limb \div 2) \div Limb) + Limb \div 2) \div Limb
    IN  Sign(x) * Sign(y) * (xh * yh + lo)

\* x / y for fixed-point x >= 0, y > 0 (rounded), by long division in base 100
DivFix(x, y) ==
    LET q  == x \div y
        r0 == x % y
        d1 == (r0 * 100) \div y
        r1 == (r0 * 100) % y
        d2 == (r1 * 100) \div y
        r2 == (r1 * 100) % y
        d3 == (r2 * 100) \div y
        r3 == (r2 * 100) % y
        up == IF 2 * r3 >= y THEN 1 ELSE 0
    IN  q * One + d1 * 10000 + d2 * 100 + d3 + up

\* integer division rounded to nearest, for either sign of x (n > 0)
DivRound(x, n) == Sign(x) * ((Abs(x) + n \div 2) \div n)

RECURSIVE LnSeries(_, _, _, _)
\* sum over odd n of y^n / n, from the term `term` = y^n on, up to n = 15
LnSeries(term, y2, n, acc) ==
    IF n > 15 THEN acc
    ELSE LnSeries(MulFix(term, y2), y2, n + 2, acc + DivRound(term, n))

RECURSIVE LnReduce(_, _)
\* <<m, k>> with x = m * 2^k and One <= m < 2*One
LnReduce(m, k) ==
    IF m >= 2 * One THEN LnReduce(m \div 2, k + 1)
    ELSE IF m < One THEN LnReduce(m * 2, k - 1)
    ELSE <<m, k>>

\* natural logarithm of a fixed-point x > 0 (numpy.log on a positive finite value)
Ln(x) ==
    LET mk == LnReduce(x, 0)
        m  == mk[1]
        y  == DivFix(m - One, m + One)
    IN  mk[2] * Ln2 + 2 * LnSeries(y, MulFix(y, y), 1, 0)

RECURSIVE ExpSeries(_, _, _, _)
\* sum of r^n / n! for n = 0..12
ExpSeries(term, r, n, acc) ==
    IF n > 12 THEN acc
    ELSE ExpSeries(DivRound(MulFix(term, r), n + 1), r, n + 1, acc + term)

\* exp(w) as a mantissa and a binary exponent: exp(w) = m * 2^k, One <= m < 2*One
Exp(w) ==
    LET k == w \div Ln2
        r == w - k * Ln2
    IN  [m |-> ExpSeries(One, r, 0, 0), k |-> k]

\* 1.0 / (1.0 + E) for E = e.m * 2^(e.k); beyond 2^20 (or below 2^-20) the
\* quotient is 0 (or 1) at the resolution of the model
Reciprocal1p(e) ==
    IF e.k <= -21 THEN One
    ELSE IF e.k < 0 THEN DivFix(One, One + e.m \div (2 ^ (-e.k)))
    ELSE IF e.k > 20 THEN 0
    ELSE LET num == One \div (2 ^ e.k)
         IN  DivFix(num, num + e.m)

(***************************************************************************)
(* Floating-point values with the IEEE specials the code can produce        *)
(***************************************************************************)

Fin(v) == [k |-> "fin", v |-> v]

NaN == [k |-> "nan", v |-> 0]

PosInf == [k |-> "inf", v |-> 1]

NegInf == [k |-> "inf", v |-> -1]

\* x >= y on floats: any comparison with nan is False
FloatGE(x, y) ==
    IF x.k = "nan" \/ y.k = "nan" THEN FALSE
    ELSE IF x.k = "inf" THEN (x.v > 0 \/ (y.k = "inf" /\ y.v < 0))
    ELSE IF y.k = "inf" THEN y.v < 0
    ELSE x.v >= y.v

\* a * x for a finite a (micro units) and a float x
FloatScale(a, x) ==
    IF x.k = "fin" THEN Fin(MulFix(a, x.v))
    ELSE IF x.k = "nan" \/ a = 0 THEN NaN
    ELSE IF Sign(a) * x.v > 0 THEN PosInf ELSE NegInf

\* x + b for a finite b (micro units) and a float x
FloatShift(x, b) == IF x.k = "fin" THEN Fin(x.v + b) ELSE x

\* numpy.log of num / den, where den = <<m micro, r ticks>> is not zero.
\* log(0) is -inf and the log of a negative number is nan (numpy warns, it
\* does not raise).
LogOfRatio(num, den) ==
    LET dsign == IF den.m # 0 THEN Sign(den.m) ELSE Sign(den.r)
        lnden == IF den.m # 0 THEN Ln(Abs(den.m))
                 ELSE Ln(Abs(den.r) * One) - 10 * Ln10
    IN  IF num = 0 THEN NegInf
        ELSE IF Sign(num) * dsign < 0 THEN NaN
        ELSE Fin(Ln(Abs(num)) - lnden)

\* 1.0 / (1.0 + numpy.exp(-z))
Sigmoid(z) ==
    IF z.k = "nan" THEN NaN
    ELSE IF z.k = "inf" THEN (IF z.v > 0 THEN Fin(One) ELSE Fin(0))
    ELSE Fin(Reciprocal1p(Exp(-z.v)))

(***************************************************************************)
(* Two-limb decimals: m micro units + r ticks (calibration parameters)      *)
(***************************************************************************)

Dec(m, r) == [m |-> m, r |-> r]

\* the value rounded to the resolution of the fixed-point arithmetic
ToMicro(d) == d.m

\* abs(x - y) < tol, tol in ticks, without leaving 32 bits
AbsDiffBelow(x, y, tolTicks) ==
    LET dm == x.m - y.m
    IN  /\ Abs(dm) < Limb
        /\ Abs(dm * TicksPerMicro + (x.r - y.r)) < tolTicks

(***************************************************************************)
(* Strings as sequences of characters                                       *)
(***************************************************************************)

\* the characters the model uses, in code-point order
Ascii ==
    << "-", ".", "0", "1", "2", "3", "4", "5", "6", "7", "8", "9", "=",
       "A", "R", "T", "V", "_", "a", "b", "d", "e", "i", "k", "l", "o",
       "r", "s", "t", "v", "x" >>

Ord(c) == CHOOSE i \in 1..Len(Ascii) : Ascii[i] = c

Digits == << "0", "1", "2", "3", "4", "5", "6", "7", "8", "9" >>

IsDigit(c) == \E i \in 1..10 : Digits[i] = c

DigitVal(c) == (CHOOSE i \in 1..10 : Digits[i] = c) - 1

\* str.lower() on one character
LowerChar(c) ==
    CASE c = "A" -> "a"
      [] c = "R" -> "r"
      [] c = "T" -> "t"
      [] c = "V" -> "v"
      [] OTHER -> c

\* str.lower()
Lower(s) == [i \in 1..Len(s) |-> LowerChar(s[i])]

RECURSIVE StrLess(_, _)
\* s < t on Python strings: code-point lexicographic order
StrLess(s, t) ==
    IF t = << >> THEN FALSE
    ELSE IF s = << >> THEN TRUE
    ELSE IF s[1] # t[1] THEN Ord(s[1]) < Ord(t[1])
    ELSE StrLess(Tail(s), Tail(t))

\* index of the first occurrence of c in s, 0 when there is none
FindChar(s, c) ==
    IF \E i \in 1..Len(s) : s[i] = c
    THEN CHOOSE i \in 1..Len(s) : s[i] = c /\ \A j \in 1..(i - 1) : s[j] # c
    ELSE 0

RECURSIVE DigitsValue(_, _)
\* the integer a digit string denotes
DigitsValue(s, acc) ==
    IF s = << >> THEN acc ELSE DigitsValue(Tail(s), 10 * acc + DigitVal(s[1]))

RECURSIVE FractionValue(_, _)
\* the micro units a string of fraction digits denotes (digits past the 6th dropped)
FractionValue(s, unit) ==
    IF s = << >> \/ unit = 0 THEN 0
    ELSE DigitVal(s[1]) * unit + FractionValue(Tail(s), unit \div 10)

AllDigits(s) == \A i \in 1..Len(s) : IsDigit(s[i])

\* float(v) on a string: [ok |-> parsed, v |-> micro units].  Plain decimal
\* literals ([-]digits[.digits]) are accepted; anything else raises ValueError.
ParseFloat(s) ==
    LET neg  == s # << >> /\ s[1] = "-"
        body == IF neg THEN Tail(s) ELSE s
        dot  == FindChar(body, ".")
        ip   == IF dot = 0 THEN body ELSE SubSeq(body, 1, dot - 1)
        fp   == IF dot = 0 THEN << >> ELSE SubSeq(body, dot + 1, Len(body))
        ok   == AllDigits(ip) /\ AllDigits(fp) /\ Len(ip) + Len(fp) > 0
        mag  == DigitsValue(ip, 0) * One + FractionValue(fp, One \div 10)
    IN  IF ok THEN [ok |-> TRUE, v |-> IF neg THEN -mag ELSE mag]
        ELSE [ok |-> FALSE, v |-> 0]

(***************************************************************************)
(* onnx_eval.py: bundle directories, calibration files, session bundles     *)
(***************************************************************************)

\* SessionBundle.calibration: None, or {"a": a, "b": b}
None == [set |-> FALSE, a |-> Dec(0, 0), b |-> Dec(0, 0)]

Calibration(a, b) == [set |-> TRUE, a |-> a, b |-> b]

\* a JSON value found under "a" or "b": absent, a number, a string or null
JMissing == [t |-> "missing", d |-> Dec(0, 0), s |-> << >>]

JNull == [t |-> "null", d |-> Dec(0, 0), s |-> << >>]

JNum(d) == [t |-> "num", d |-> d, s |-> << >>]

JStr(s) == [t |-> "str", d |-> Dec(0, 0), s |-> s]

\* a JSON array: a value Python cannot look up in a dict
JArray == [t |-> "array", d |-> Dec(0, 0), s |-> << >>]

\* float(params.get(key, default)): [ok |-> no exception, d |-> the value]
GetFloat(j, default) ==
    CASE j.t = "missing" -> [ok |-> TRUE, d |-> default]
      [] j.t = "num"     -> [ok |-> TRUE, d |-> j.d]
      [] j.t = "str"     -> LET f == ParseFloat(j.s)
                            IN  [ok |-> f.ok, d |-> Dec(f.v, 0)]
      [] OTHER           -> [ok |-> FALSE, d |-> default]

\* the calibration a bundle directory yields (calibration.json, if any)
LoadCalibration(f) ==
    IF ~f.exists THEN None
    ELSE IF ~f.parses THEN None
    ELSE IF ~(f.isObject /\ f.ctype = "platt") THEN None
    ELSE IF f.params = "list" THEN None
    ELSE LET inDict == f.params = "dict"
             a == GetFloat(IF inDict THEN f.a ELSE JMissing, Dec(One, 0))
             b == GetFloat(IF inDict THEN f.b ELSE JMissing, Dec(0, 0))
         IN  IF a.ok /\ b.ok THEN Calibration(a.d, b.d) ELSE None

\* sub in s
Contains(s, sub) ==
    \E i \in 1..(Len(s) - Len(sub) + 1) : SubSeq(s, i, i + Len(sub) - 1) = sub

\* an input or output of the loaded graph: name, type string and shape
\* (a dimension without a fixed size is 0)
NodeArg(name, type, shape) == [name |-> name, type |-> type, shape |-> shape]

NamesOf(tensors) == {tensors[i].name : i \in 1..Len(tensors)}

\* type ends with "string", or its lower case contains "string"
IsStringInput(i) ==
    Contains(Lower(i.type), << "s", "t", "r", "i", "n", "g" >>)

\* "prob" in o.name.lower()
ProbNamed(o) == Contains(Lower(o.name), << "p", "r", "o", "b" >>)

\* "float" in otype and len(shape) >= 2 and (shape[-1] == 2 or shape[1] == 2)
TwoClass(o) ==
    /\ Contains(Lower(o.type), << "f", "l", "o", "a", "t" >>)
    /\ Len(o.shape) >= 2
    /\ o.shape[Len(o.shape)] = 2 \/ o.shape[2] = 2

ResolveInputFirst(cfg, ins) ==
    IF cfg.t = "str" /\ cfg.s \in NamesOf(ins) THEN cfg.s ELSE ins[1].name

\* input_name: the config's name if the graph has it, else the first string
\* input, else the first input
ResolveInput(cfg, ins) ==
    IF cfg.t = "str" /\ cfg.s \in NamesOf(ins) THEN cfg.s
    ELSE LET string_inputs == SelectSeq(ins, IsStringInput)
         IN  IF string_inputs # << >> THEN string_inputs[1].name
             ELSE ins[1].name

ResolveOutputFirst(cfg, outs) ==
    IF cfg.t = "str" /\ cfg.s \in NamesOf(outs) THEN cfg.s ELSE outs[1].name

ResolveOutputTrustsConfig(cfg, outs) ==
    IF cfg.t = "str" THEN cfg.s ELSE outs[1].name

\* output_name: the config's name if the graph has it, else the heuristics
ResolveOutput(cfg, outs) ==
    IF cfg.t = "str" /\ cfg.s \in NamesOf(outs) THEN cfg.s
    ELSE IF Len(outs) = 1 THEN outs[1].name
    ELSE LET prob_named == SelectSeq(outs, ProbNamed)
             two_class  == SelectSeq(outs, TwoClass)
         IN  IF prob_named # << >> THEN prob_named[1].name
             ELSE IF two_class # << >> THEN two_class[1].name
             ELSE outs[1].name

\* `name in available` raises for a name that is not hashable
Unhashable(names) == names.input.t = "array" \/ names.output.t = "array"

\* _build_session_from_bundle: [ok |-> FALSE] when the run ends there (a file
\* is missing, config.json cannot be read as JSON or lacks inputTensorName /
\* outputTensorName, onnxruntime cannot load model.onnx, or a tensor name of
\* config.json is not hashable)
BuildSession(child) ==
    IF \/ ~child.hasModel \/ ~child.hasConfig \/ child.config # "ok"
       \/ ~child.model.loads \/ Unhashable(child.names)
    THEN [ok |-> FALSE, head |-> child.name, session |-> child.model,
          input_name |-> << >>, output_prob |-> << >>, calibration |-> None]
    ELSE [ok |-> TRUE, head |-> child.name, session |-> child.model,
          input_name |-> ResolveInput(child.names.input, child.model.inputs),
          output_prob |-> ResolveOutput(child.names.output, child.model.outputs),
          calibration |-> LoadCalibration(child.calib)]

\* the sort key of discover_onnx_models_dir: p.name.lower()
SortKeyCaseSensitive(child) == child.name

SortKey(child) == Lower(child.name)

RECURSIVE InsertByKey(_, _)
\* e put behind every element whose key is not greater (sorted() is stable)
InsertByKey(sorted, e) ==
    IF sorted = << >> THEN << e >>
    ELSE IF StrLess(SortKey(e), SortKey(sorted[1])) THEN << e >> \o sorted
    ELSE << sorted[1] >> \o InsertByKey(Tail(sorted), e)

RECURSIVE SortedChildren(_)
\* sorted(base_dir.iterdir(), key=lambda p: p.name.lower())
SortedChildren(listing) ==
    IF listing = << >> THEN << >>
    ELSE InsertByKey(SortedChildren(SubSeq(listing, 1, Len(listing) - 1)),
                     listing[Len(listing)])

QualifiesModelOnly(child) == child.isDir /\ child.hasModel

\* a child that discover hands to _build_session_from_bundle
Qualifies(child) == child.isDir /\ child.hasModel /\ child.hasConfig

RECURSIVE BuildAll(_, _)
\* the loop of discover_onnx_models_dir over the sorted children
BuildAll(children, bundles) ==
    IF children = << >> THEN [fatal |-> FALSE, bundles |-> bundles]
    ELSE IF ~Qualifies(children[1]) THEN BuildAll(Tail(children), bundles)
    ELSE LET sb == BuildSession(children[1])
         IN  IF ~sb.ok THEN [fatal |-> TRUE, bundles |-> bundles]
             ELSE BuildAll(Tail(children),
                           Append(bundles, [head |-> sb.head,
                                            session |-> sb.session,
                                            input_name |-> sb.input_name,
                                            output_prob |-> sb.output_prob,
                                            calibration |-> sb.calibration]))

DiscoverEmptyAllowed(base) ==
    IF base.kind # "dir" THEN [fatal |-> TRUE, bundles |-> << >>]
    ELSE BuildAll(SortedChildren(base.children), << >>)

\* discover_onnx_models_dir(base_dir)
Discover(base) ==
    IF base.kind # "dir" THEN [fatal |-> TRUE, bundles |-> << >>]
    ELSE LET r == BuildAll(SortedChildren(base.children), << >>)
         IN  IF r.fatal \/ r.bundles = << >>
             THEN [fatal |-> TRUE, bundles |-> << >>]
             ELSE r

Heads(bundles) == [i \in 1..Len(bundles) |-> bundles[i].head]

\* the default threshold
Half == 500000

RECURSIVE ApplyOverrides(_, _)
\* the loop of parse_thresholds over the head=VALUE specs
ApplyOverrides(thr, overrides) ==
    IF overrides = << >> THEN [fatal |-> FALSE, thr |-> thr]
    ELSE LET spec == overrides[1]
             eq   == FindChar(spec, "=")
             k    == SubSeq(spec, 1, eq - 1)
             v    == ParseFloat(SubSeq(spec, eq + 1, Len(spec)))
         IN  IF eq = 0 \/ ~v.ok THEN [fatal |-> TRUE, thr |-> thr]
             ELSE ApplyOverrides(
                    [h \in DOMAIN thr \cup {k} |-> IF h = k THEN v.v ELSE thr[h]],
                    Tail(overrides))

\* parse_thresholds(heads, overrides)
ParseThresholds(heads, overrides) ==
    ApplyOverrides([h \in {heads[i] : i \in 1..Len(heads)} |-> Half], overrides)

\* the positive-class value of a session output of shape (1, n)
ExtractProbability(row) == IF Len(row) >= 2 THEN row[2] ELSE row[1]

\* 1e-10, the epsilon of the logit denominator, in ticks
EpsTicks == 1

\* the calibrated probability of the JSON-Lines loop: logit, then sigmoid
PlattLogit(p_uncal, params) ==
    LET a   == ToMicro(params.a)
        b   == ToMicro(params.b)
        den == Dec(One - p_uncal, EpsTicks)
    IN  IF den.m = 0 /\ den.r = 0 THEN Fin(p_uncal)
        ELSE Sigmoid(FloatShift(FloatScale(a, LogOfRatio(p_uncal, den)), b))

\* the calibrated probability of the CSV loop: sigmoid of a * p + b
PlattRaw(p_uncal, params) ==
    LET a == ToMicro(params.a)
        b == ToMicro(params.b)
    IN  Sigmoid(Fin(MulFix(a, p_uncal) + b))

\* p of one head for one text, in the loop of the given output mode
Probability(as_jsonl, p_uncal, calibration) ==
    IF ~calibration.set THEN Fin(p_uncal)
    ELSE IF as_jsonl THEN PlattLogit(p_uncal, calibration)
    ELSE PlattRaw(p_uncal, calibration)

LabelStrict(p, thr) == IF FloatGE(p, Fin(thr)) /\ p # Fin(thr) THEN 1 ELSE 0

\* int(p >= thr_by_head[h])
Label(p, thr) == IF FloatGE(p, Fin(thr)) THEN 1 ELSE 0

(***************************************************************************)
(* onnx_eval.py: the state of one evaluation run                            *)
(***************************************************************************)

VARIABLES
    base_dir,     \* the --name directory: its kind and its children as iterdir yields them
    args,         \* the parsed command line: as_jsonl, no_header, threshold
    inputs,       \* the number of non-empty input texts
    evalPc,       \* where main() of onnx_eval.py stands
    sessions,     \* the discovered SessionBundles, in dict order
    thr_by_head,  \* head -> threshold
    ti,           \* index of the text being evaluated
    hi,           \* index of the head being evaluated
    rec,          \* the heads whose values the current record / row holds, in order
    header,       \* the CSV header columns written, << >> when none
    written,      \* the number of records / rows written and the keys of the last one
    last          \* the latest evaluation of one head on one text

evalVars ==
    << base_dir, args, inputs, evalPc, sessions, thr_by_head, ti, hi, rec,
       header, written, last >>

VARIABLES
    train_csv,          \* "missing" or "ok": args.train_csv exists and is a file
    dimensions,         \* the label columns, in order
    df,                 \* the rows kept: n rows, pos[i] ones in column dimensions[i]
    trainPc,            \* where main() of onnx_train.py stands
    idx,                \* the index of the head of the current iteration
    calibration_params, \* of the current iteration
    all_metrics,        \* the columns with an entry, in order: skipped ({}) or evaluated
    saved_paths,        \* the columns whose bundle was written, in order
    out_dir,            \* the bundle directories under base_out_dir, by head name
    files_written,      \* the files this run wrote: << head, file name >>
    stderr,             \* the columns whose export failure was reported
    exit_code,          \* -1 while running
    overrides,          \* the overrides JSON: key -> params object
    model_params,       \* of the current iteration
    stdout,             \* the columns for which the char-feature warning was printed
    pipeline,           \* the pipeline make_text_classifier returned last
    curve               \* the reliability curve and the fit of the current calibration

trainVars ==
    << train_csv, dimensions, df, trainPc, idx, calibration_params, all_metrics,
       saved_paths, out_dir, files_written, stderr, exit_code, overrides,
       model_params, stdout, pipeline, curve >>

vars == << evalVars, trainVars >>

\* bounds of the model
MaxChildren == 3

MaxInputs == 2

\* raw positive-class outputs a session may produce
RawProbs == {0, 300000, 500000, 600000, 950000, One}

HeadNames ==
    { << "r", "i", "s", "k" >>,
      << "A", "d", "d", "r", "e", "s", "s" >>,
      << "v", "o", "d", "a" >>,
      << "T", "a", "x" >> }

NoCalibrationFile ==
    [exists |-> FALSE, parses |-> TRUE, isObject |-> TRUE, ctype |-> "platt",
     params |-> "dict", a |-> JMissing, b |-> JMissing]

PlattFile(params, a, b) ==
    [exists |-> TRUE, parses |-> TRUE, isObject |-> TRUE, ctype |-> "platt",
     params |-> params, a |-> a, b |-> b]

\* contents a calibration.json may have
CalibrationFiles ==
    { NoCalibrationFile,
      [NoCalibrationFile EXCEPT !.exists = TRUE, !.parses = FALSE],
      [NoCalibrationFile EXCEPT !.exists = TRUE, !.isObject = FALSE],
      [PlattFile("dict", JNum(Dec(2 * One, 0)), JNum(Dec(250000, 0)))
          EXCEPT !.ctype = "identity"],
      [PlattFile("dict", JNum(Dec(2 * One, 0)), JNum(Dec(250000, 0)))
          EXCEPT !.ctype = "missing"],
      PlattFile("missing", JMissing, JMissing),
      PlattFile("null", JMissing, JMissing),
      PlattFile("list", JMissing, JMissing),
      PlattFile("dict", JNum(Dec(2 * One, 0)), JNum(Dec(250000, 0))),
      PlattFile("dict", JNum(Dec(-10 * One, 0)), JNum(Dec(10 * One, 0))),
      PlattFile("dict", JNum(Dec(One, 0)), JNum(Dec(0, 0))),
      PlattFile("dict", JMissing, JNum(Dec(250000, 0))),
      PlattFile("dict", JNum(Dec(2 * One, 0)), JMissing),
      PlattFile("dict", JStr(<< "x" >>), JNum(Dec(250000, 0))),
      PlattFile("dict", JNum(Dec(2 * One, 0)), JNull) }

\* what a child of the base directory may be, apart from its name
ChildShapes ==
    { [isDir |-> FALSE, hasModel |-> FALSE, hasConfig |-> FALSE, config |-> "ok"],
      [isDir |-> TRUE, hasModel |-> TRUE, hasConfig |-> FALSE, config |-> "ok"],
      [isDir |-> TRUE, hasModel |-> FALSE, hasConfig |-> TRUE, config |-> "ok"],
      [isDir |-> TRUE, hasModel |-> TRUE, hasConfig |-> TRUE, config |-> "ok"],
      [isDir |-> TRUE, hasModel |-> TRUE, hasConfig |-> TRUE, config |-> "nokeys"] }

\* tensor(string), tensor(int64), tensor(float), tensor(double)
TString ==
    << "t", "e", "n", "s", "o", "r", "(", "s", "t", "r", "i", "n", "g", ")" >>

TInt64 == << "t", "e", "n", "s", "o", "r", "(", "i", "n", "t", "6", "4", ")" >>

TFloat == << "t", "e", "n", "s", "o", "r", "(", "f", "l", "o", "a", "t", ")" >>

TDouble == << "t", "e", "n", "s", "o", "r", "(", "d", "o", "u", "b", "l", "e", ")" >>

\* tensor names
NText == << "t", "e", "x", "t" >>

NIds == << "i", "d", "s" >>

NMask == << "m", "a", "s", "k" >>

NLabel == << "l", "a", "b", "e", "l" >>

NProbabilities ==
    << "p", "r", "o", "b", "a", "b", "i", "l", "i", "t", "i", "e", "s" >>

NProbUpper == << "P", "R", "O", "B" >>

NScores == << "s", "c", "o", "r", "e", "s" >>

NOther == << "x" >>

\* the inputs and outputs of a graph the trainer exports: text in, the label
\* and a (N, cols) tensor of probabilities out
ExportedInputs == << NodeArg(NText, TString, << 0, 1 >>) >>

ExportedOutputs(cols) ==
    << NodeArg(NLabel, TInt64, << 0 >>),
       NodeArg(NProbabilities, TFloat, << 0, cols >>) >>

\* inputTensorName and outputTensorName as the trainer writes them
ExportedNames == [input |-> JStr(NText), output |-> JStr(NProbabilities)]

\* what the output of a graph that does not normalise may hold for the
\* positive class: -0.25 and 1.5
RawScores == {-250000, 1500000}

\* model.onnx as far as evaluation reads it: whether onnxruntime loads it, the
\* columns of the (1, n) output it is asked for, the values that output may
\* hold for the positive class, and its inputs and outputs
Graph(cols) ==
    [cols |-> cols, loads |-> TRUE, values |-> RawProbs,
     inputs |-> ExportedInputs, outputs |-> ExportedOutputs(cols)]

\* a config.json without inputTensorName and outputTensorName
MissingNames == [input |-> JMissing, output |-> JMissing]

\* the inputs a graph may declare
InputLists ==
    { ExportedInputs,
      << NodeArg(NIds, TInt64, << 0, 8 >>), NodeArg(NText, TString, << 0, 1 >>) >>,
      << NodeArg(NIds, TInt64, << 0, 8 >>), NodeArg(NMask, TInt64, << 0, 8 >>) >> }

\* the outputs a graph may declare
OutputLists ==
    { ExportedOutputs(2),
      << NodeArg(NScores, TFloat, << 0, 2 >>) >>,
      << NodeArg(NLabel, TInt64, << 0 >>), NodeArg(NProbUpper, TFloat, << 0, 2 >>) >>,
      << NodeArg(NLabel, TInt64, << 0 >>), NodeArg(NScores, TFloat, << 0, 2 >>) >>,
      << NodeArg(NLabel, TInt64, << 0 >>), NodeArg(NScores, TDouble, << 0, 2 >>) >>,
      << NodeArg(NLabel, TInt64, << 0 >>), NodeArg(NScores, TFloat, << 2 >>) >>,
      << NodeArg(NLabel, TInt64, << 0 >>), NodeArg(NScores, TFloat, << 0, 3 >>) >>,
      << NodeArg(NLabel, TInt64, << 0 >>), NodeArg(NScores, TFloat, << 0, 2, 5 >>) >>,
      << NodeArg(NLabel, TInt64, << 0 >>), NodeArg(NScores, TFloat, << 0, 2 >>),
         NodeArg(NProbabilities, TInt64, << 0 >>) >> }

\* the tensor names a config.json may declare
DeclaredNames ==
    { [input |-> i, output |-> o] :
        i \in {JStr(NText), JStr(NOther), JNull, JArray},
        o \in {JStr(NProbabilities), JStr(NLabel), JStr(NOther), JNull, JArray} }

Child(name, shape, calib) ==
    [name |-> name, isDir |-> shape.isDir, hasModel |-> shape.hasModel,
     hasConfig |-> shape.hasConfig, config |-> shape.config, model |-> Graph(2),
     names |-> ExportedNames, calib |-> calib]

Bundle(name, cols, calib) ==
    [name |-> name, isDir |-> TRUE, hasModel |-> TRUE, hasConfig |-> TRUE,
     config |-> "ok", model |-> Graph(cols), names |-> ExportedNames,
     calib |-> calib]

\* every listing of at most MaxChildren children with distinct names
Listings ==
    UNION { { [i \in 1..n |-> Child(f[i][1], f[i][2], NoCalibrationFile)] :
                f \in { g \in [1..n -> HeadNames \X ChildShapes] :
                          \A i, j \in 1..n : i # j => g[i][1] # g[j][1] } } :
            n \in 0..MaxChildren }

\* --threshold arguments
ThresholdArgs ==
    { << >>,
      << << "v", "o", "d", "a", "=", "0", ".", "8" >> >>,
      << << "r", "i", "s", "k", "=", "0", ".", "4" >>,
         << "v", "o", "d", "a", "=", "0", ".", "8" >> >>,
      << << "r", "i", "s", "k", "=", "0", ".", "4" >>,
         << "r", "i", "s", "k", "=", "0", ".", "8" >> >>,
      << << "T", "a", "x", "=", "0", ".", "9" >> >>,
      << << "r", "i", "s", "k" >> >>,
      << << "r", "i", "s", "k", "=", "x" >> >> }

OutputArgs ==
    { [as_jsonl |-> TRUE, no_header |-> FALSE],
      [as_jsonl |-> FALSE, no_header |-> FALSE],
      [as_jsonl |-> FALSE, no_header |-> TRUE] }

Args(o, t) ==
    [as_jsonl |-> o.as_jsonl, no_header |-> o.no_header, threshold |-> t]

NoEvaluation ==
    [head |-> << >>, raw |-> 0, calibration |-> None, thr |-> 0, p |-> Fin(0),
     label |-> 0]

\* what one pass of the loop over the heads leaves: p and int(p >= thr)
Evaluation(bundle, raw, thr, p) ==
    [head |-> bundle.head, raw |-> raw, calibration |-> bundle.calibration,
     thr |-> thr, p |-> p, label |-> Label(p, thr)]

EvalStart ==
    /\ evalPc = "read_inputs"
    /\ sessions = << >>
    /\ thr_by_head = << >>
    /\ ti = 1
    /\ hi = 1
    /\ rec = << >>
    /\ header = << >>
    /\ written = [n |-> 0, keys |-> << >>]
    /\ last = NoEvaluation

\* runs over arbitrary base directories, default thresholds
InitDiscovery ==
    /\ \E kind \in {"missing", "file", "dir"} :
         \E l \in Listings :
            /\ (kind # "dir" => l = << >>)
            /\ base_dir = [kind |-> kind, children |-> l]
    /\ \E o \in OutputArgs : args = Args(o, << >>)
    /\ inputs = 1
    /\ EvalStart

\* runs over the bundle risk with any calibration file, alone or next to a
\* second bundle (sound or not), with any thresholds
InitCalibration ==
    /\ \E c \in CalibrationFiles :
         \E second \in {0, 1, 2, 3, 4} :
            base_dir =
              [kind |-> "dir",
               children |->
                 << Bundle(<< "r", "i", "s", "k" >>, 2, c) >> \o
                 (IF second = 0 THEN << >>
                  ELSE IF second = 3
                  THEN << [Bundle(<< "v", "o", "d", "a" >>, 1, NoCalibrationFile)
                             EXCEPT !.config = "unparseable"] >>
                  ELSE IF second = 4
                  THEN << [Bundle(<< "v", "o", "d", "a" >>, 1, NoCalibrationFile)
                             EXCEPT !.model.loads = FALSE] >>
                  ELSE << Bundle(<< "v", "o", "d", "a" >>, 1,
                                 IF second = 1 THEN NoCalibrationFile
                                 ELSE PlattFile("dict", JNum(Dec(500000, 0)),
                                                JNum(Dec(-250000, 0)))) >>)]
    /\ \E o \in {x \in OutputArgs : ~x.no_header} :
         \E t \in ThresholdArgs : args = Args(o, t)
    /\ inputs \in 0..MaxInputs
    /\ EvalStart

\* runs over one uncalibrated bundle, any graph and any declared tensor names
InitTensorNames ==
    /\ \E ins \in InputLists, outs \in OutputLists,
          cfg \in ({"ok"} \X DeclaredNames) \cup {<< "nokeys", MissingNames >>} :
          base_dir =
            [kind |-> "dir",
             children |->
               << [Bundle(<< "r", "i", "s", "k" >>, 2, NoCalibrationFile)
                     EXCEPT !.model.inputs = ins, !.model.outputs = outs,
                            !.names = cfg[2], !.config = cfg[1]] >>]
    /\ args = Args([as_jsonl |-> TRUE, no_header |-> FALSE], << >>)
    /\ inputs = 1
    /\ EvalStart

\* runs over one calibrated bundle whose graph does not keep its output
\* within [0, 1]
InitScores ==
    /\ \E a \in {2 * One, -One} :
          base_dir =
            [kind |-> "dir",
             children |->
               << [Bundle(<< "r", "i", "s", "k" >>, 2,
                          PlattFile("dict", JNum(Dec(a, 0)), JNum(Dec(250000, 0))))
                     EXCEPT !.model.values = RawProbs \cup RawScores] >>]
    /\ \E o \in {x \in OutputArgs : ~x.no_header} : args = Args(o, << >>)
    /\ inputs = MaxInputs
    /\ EvalStart

EvalInit == InitDiscovery \/ InitCalibration \/ InitTensorNames \/ InitScores

\* inputs = read_inputs_from_stdin_or_arg(args.text)
ReadInputs ==
    /\ evalPc = "read_inputs"
    /\ evalPc' = IF inputs = 0 THEN "fatal_read_inputs" ELSE "discover"
    /\ UNCHANGED << base_dir, args, inputs, sessions, thr_by_head, ti, hi, rec,
                    header, written, last >>
    /\ UNCHANGED trainVars

\* sessions = discover_onnx_models_dir(base_dir)
DiscoverModels ==
    /\ evalPc = "discover"
    /\ LET r == Discover(base_dir)
       IN  /\ evalPc' = IF r.fatal THEN "fatal_discover" ELSE "parse_thresholds"
           /\ sessions' = r.bundles
    /\ UNCHANGED << base_dir, args, inputs, thr_by_head, ti, hi, rec, header,
                    written, last >>
    /\ UNCHANGED trainVars

\* thr_by_head = parse_thresholds(sessions.keys(), args.threshold)
ParseThresholdsStep ==
    /\ evalPc = "parse_thresholds"
    /\ LET r == ParseThresholds(Heads(sessions), args.threshold)
       IN  /\ evalPc' = IF r.fatal THEN "fatal_parse_thresholds"
                        ELSE IF args.as_jsonl THEN "text" ELSE "header"
           /\ thr_by_head' = IF r.fatal THEN thr_by_head ELSE r.thr
    /\ UNCHANGED << base_dir, args, inputs, sessions, ti, hi, rec, header,
                    written, last >>
    /\ UNCHANGED trainVars

\* CSV mode: writer.writerow(headers) unless --no-header
WriteHeader ==
    /\ evalPc = "header"
    /\ header' = IF args.no_header THEN header ELSE Heads(sessions)
    /\ evalPc' = "text"
    /\ UNCHANGED << base_dir, args, inputs, sessions, thr_by_head, ti, hi, rec,
                    written, last >>
    /\ UNCHANGED trainVars

\* for s in inputs: a new record (JSON-Lines) or row (CSV)
BeginText ==
    /\ evalPc = "text"
    /\ ti <= inputs
    /\ rec' = << >>
    /\ hi' = 1
    /\ evalPc' = "heads"
    /\ UNCHANGED << base_dir, args, inputs, sessions, thr_by_head, ti, header,
                    written, last >>
    /\ UNCHANGED trainVars

\* for h, bundle in sessions.items(): run the session, calibrate, threshold
EvalHead ==
    /\ evalPc = "heads"
    /\ hi <= Len(sessions)
    /\ \E raw \in sessions[hi].session.values :
         LET bundle  == sessions[hi]
             row     == IF bundle.session.cols = 2 THEN << One - raw, raw >>
                        ELSE << raw >>
             p_uncal == ExtractProbability(row)
         IN  /\ rec' = Append(rec, bundle.head)
             /\ last' = Evaluation(bundle, raw, thr_by_head[bundle.head],
                                   Probability(args.as_jsonl, p_uncal,
                                               bundle.calibration))
    /\ hi' = hi + 1
    /\ UNCHANGED << base_dir, args, inputs, evalPc, sessions, thr_by_head, ti,
                    header, written >>
    /\ UNCHANGED trainVars

\* out.write(json.dumps(rec)) / writer.writerow(row)
WriteRecord ==
    /\ evalPc = "heads"
    /\ hi > Len(sessions)
    /\ written' = [n |-> written.n + 1, keys |-> rec]
    /\ ti' = ti + 1
    /\ evalPc' = "text"
    /\ UNCHANGED << base_dir, args, inputs, sessions, thr_by_head, hi, rec,
                    header, last >>
    /\ UNCHANGED trainVars

\* return 0
EvalDone ==
    /\ evalPc = "text"
    /\ ti > inputs
    /\ evalPc' = "done"
    /\ UNCHANGED << base_dir, args, inputs, sessions, thr_by_head, ti, hi, rec,
                    header, written, last >>
    /\ UNCHANGED trainVars

EvalNext ==
    \/ ReadInputs
    \/ DiscoverModels
    \/ ParseThresholdsStep
    \/ WriteHeader
    \/ BeginText
    \/ EvalHead
    \/ WriteRecord
    \/ EvalDone

(***************************************************************************)
(* onnx_train.py: pure parts                                                *)
(***************************************************************************)

IsPrefix(pat, s) == Len(pat) <= Len(s) /\ SubSeq(s, 1, Len(pat)) = pat

RECURSIVE Remove(_, _)
\* s.replace(pat, "")
Remove(s, pat) ==
    IF s = << >> THEN << >>
    ELSE IF IsPrefix(pat, s) THEN Remove(SubSeq(s, Len(pat) + 1, Len(s)), pat)
    ELSE << s[1] >> \o Remove(Tail(s), pat)

\* name_of(dimension)
name_of(dimension) == Lower(Remove(dimension, << "l", "a", "b", "e", "l", "_" >>))

\* a value of the overrides JSON: n holds a bool (0 / 1), an int or a float in
\* micro units, l the elements of a list or the characters of a string
PNone == [t |-> "none", n |-> 0, l |-> << >>]

PBool(b) == [t |-> "bool", n |-> IF b THEN 1 ELSE 0, l |-> << >>]

PInt(n) == [t |-> "int", n |-> n, l |-> << >>]

PFloat(micro) == [t |-> "float", n |-> micro, l |-> << >>]

PList(l) == [t |-> "list", n |-> 0, l |-> l]

PStr(s) == [t |-> "str", n |-> 0, l |-> s]

\* bool(v)
Truthy(v) ==
    CASE v.t = "none" -> FALSE
      [] v.t \in {"bool", "int", "float"} -> v.n # 0
      [] OTHER -> v.l # << >>

\* float(v) on a number
ToFloat(v) == IF v.t = "float" THEN v.n ELSE v.n * One

\* params.get(key)
Get(params, key) == IF key \in DOMAIN params THEN params[key] ELSE PNone

\* {}
NoParams == [k \in {} |-> PNone]

\* default_params
DefaultParams ==
    [k \in {"strip_accents", "use_word_features", "use_char_features",
            "word_ngram_range", "word_min_df", "calibrate", "C"} |->
        CASE k = "strip_accents"     -> PNone
          [] k = "use_word_features" -> PBool(TRUE)
          [] k = "use_char_features" -> PBool(FALSE)
          [] k = "word_ngram_range"  -> PList(<< 1, 2 >>)
          [] k = "word_min_df"       -> PInt(1)
          [] k = "calibrate"         -> PBool(FALSE)
          [] OTHER                   -> PFloat(Half)]

\* params = overrides.get(d, {})
Lookup(overrides_json, d) ==
    IF d \in DOMAIN overrides_json THEN overrides_json[d] ELSE NoParams

\* model_params = dict(default_params), updated with the known keys of params
MergeParams(params) ==
    [k \in DOMAIN DefaultParams |->
        IF k \in DOMAIN params THEN params[k] ELSE DefaultParams[k]]

\* if params.get("char_ngram_range") or params.get("char_min_df"): warning
CharWarning(params) ==
    Truthy(Get(params, "char_ngram_range")) \/ Truthy(Get(params, "char_min_df"))

\* no pipeline built yet
NoPipeline ==
    [built |-> FALSE, analyzer |-> "", ngram_range |-> << >>, min_df |-> 0,
     strip_accents |-> PNone, C |-> 0]

\* make_text_classifier as main() calls it: SystemExit (built stays FALSE)
\* when word features are switched off
MakeTextClassifier(mp) ==
    IF ~Truthy(mp["use_word_features"]) THEN NoPipeline
    ELSE [built |-> TRUE, analyzer |-> "word",
          ngram_range |-> mp["word_ngram_range"].l,
          min_df |-> mp["word_min_df"].n,
          strip_accents |-> mp["strip_accents"],
          C |-> ToFloat(mp["C"])]

\* df[dimension].values for a column with `pos` ones among `n` rows
Column(n, pos) == [i \in 1..n |-> IF i <= pos THEN 1 ELSE 0]

\* len(set(int(v) for v in set(y_all)))
DistinctLabels(y_all) == Cardinality({y_all[i] : i \in 1..Len(y_all)})

\* split_training_data returns None
SingleClass(y_all) == DistinctLabels(y_all) < 2

Count(y_all, v) == Cardinality({i \in 1..Len(y_all) : y_all[i] = v})

Minority(y_all) ==
    IF Count(y_all, 0) < Count(y_all, 1) THEN Count(y_all, 0) ELSE Count(y_all, 1)

\* the number of test rows train_test_split takes for test_size = 0.2: ceil(n / 5)
TestRows(n) == (n + 4) \div 5

\* train_test_split(..., stratify=y_all) does not raise ValueError
StratifyOk(y_all) ==
    /\ Minority(y_all) >= 2
    /\ TestRows(Len(y_all)) >= 2
    /\ Len(y_all) - TestRows(Len(y_all)) >= 2

\* the train fold may hold one class only, and then pipeline.fit raises: after
\* the fall-back to a random split the whole minority class may sit in the test fold
FitMayRaise(y_all) ==
    ~StratifyOk(y_all) /\ Minority(y_all) <= TestRows(Len(y_all))

\* len(prob_pred) < 3: too few occupied bins
MinBins == 3

\* np.std(prob_pred) < 0.01
MinStd == 10000

\* 1e-9 in ticks
TolTicks == 10

IdentityParams == [a |-> Dec(One, 0), b |-> Dec(0, 0), type |-> "identity"]

\* bounds=([-10, -10], [10, 10])
FitBound == 10

\* the point of [-10, 10] nearest to x
Clamp(x) ==
    IF x.m > FitBound * One \/ (x.m = FitBound * One /\ x.r > 0)
    THEN Dec(FitBound * One, 0)
    ELSE IF x.m < -FitBound * One \/ (x.m = -FitBound * One /\ x.r < 0)
    THEN Dec(-FitBound * One, 0)
    ELSE x

CurveFitUnbounded(fit) == fit

\* popt of curve_fit(sigmoid, logits, prob_true, p0=[1, 0], bounds=...): `fit`
\* is the least-squares estimate, which the optimiser keeps inside the bounds
CurveFit(fit) ==
    IF fit.ok THEN [ok |-> TRUE, a |-> Clamp(fit.a), b |-> Clamp(fit.b)] ELSE fit

\* calibration_params from the reliability curve (bins occupied, std of the bin
\* means) and the outcome of curve_fit
Calibrate(bins, std, fit) ==
    IF bins < MinBins \/ std < MinStd THEN IdentityParams
    ELSE IF fit.ok
    THEN [a |-> CurveFit(fit).a, b |-> CurveFit(fit).b, type |-> "platt_scaling"]
    ELSE IdentityParams

WritesCalibrationExact(params) ==
    ~(params.a = Dec(One, 0) /\ params.b = Dec(0, 0))

\* not (abs(a - 1.0) < 1e-9 and abs(b) < 1e-9)
WritesCalibration(params) ==
    ~(/\ AbsDiffBelow(params.a, Dec(One, 0), TolTicks)
      /\ AbsDiffBelow(params.b, Dec(0, 0), TolTicks))

\* the calibration.json the exporter writes
CalibrationJson(params) ==
    [exists |-> TRUE, parses |-> TRUE, isObject |-> TRUE,
     ctype |-> IF params.type = "platt_scaling" THEN "platt" ELSE "identity",
     params |-> "dict", a |-> JNum(params.a), b |-> JNum(params.b)]

ExportFailureSkips(ok, i) ==
    IF ok THEN [pc |-> "write", idx |-> i, exit |-> -1]
    ELSE [pc |-> "loop", idx |-> i + 1, exit |-> -1]

\* where main() goes after convert_sklearn: on, or return 1
AfterExport(ok, i) ==
    IF ok THEN [pc |-> "write", idx |-> i, exit |-> -1]
    ELSE [pc |-> "exit", idx |-> i, exit |-> 1]

SkipAborts(single, i) ==
    IF single THEN [pc |-> "exit", idx |-> i, exit |-> 1]
    ELSE [pc |-> "fit", idx |-> i, exit |-> -1]

\* where main() goes after split_training_data: continue, or on to the fit
AfterSplit(single, i) ==
    IF single THEN [pc |-> "loop", idx |-> i + 1, exit |-> -1]
    ELSE [pc |-> "fit", idx |-> i, exit |-> -1]

(***************************************************************************)
(* onnx_train.py: the state of one training run                             *)
(***************************************************************************)

MaxDimensions == 2

MaxRows == 10

DimensionNames ==
    { << "l", "a", "b", "e", "l", "_", "r", "i", "s", "k" >>,
      << "l", "a", "b", "e", "l", "_", "v", "o", "d", "a" >>,
      << "T", "a", "x" >> }

DimensionLists ==
    UNION { { f \in [1..n -> DimensionNames] : \A i, j \in 1..n : i # j => f[i] # f[j] } :
            n \in 0..MaxDimensions }

\* outcomes of the least-squares fit: an exception, or an estimate
FitOutcomes ==
    { [ok |-> FALSE, a |-> Dec(0, 0), b |-> Dec(0, 0)] } \cup
    { [ok |-> TRUE, a |-> ab[1], b |-> ab[2]] :
        ab \in { << Dec(One, 0), Dec(0, 0) >>,
                 << Dec(One, 5), Dec(0, -5) >>,
                 << Dec(One, 10), Dec(0, 0) >>,
                 << Dec(One, 0), Dec(0, -10) >>,
                 << Dec(One - 1, 9995), Dec(0, 0) >>,
                 << Dec(2 * One, 0), Dec(250000, 0) >>,
                 << Dec(-12 * One, 0), Dec(10 * One, 0) >> } }

\* curve_fit raised, or was not called
NoFit == [ok |-> FALSE, a |-> Dec(0, 0), b |-> Dec(0, 0)]

\* no calibration under way
NoCurve == [bins |-> 0, std |-> 0, fit |-> NoFit]

\* what calibration_curve and curve_fit may yield: the occupied bins, the
\* standard deviation of the bin means, and the fit when it is attempted
Curves ==
    { [bins |-> 2, std |-> 200000, fit |-> NoFit],
      [bins |-> 3, std |-> 5000, fit |-> NoFit],
      [bins |-> 2, std |-> 5000, fit |-> NoFit] } \cup
    { [bins |-> 3, std |-> MinStd, fit |-> f] : f \in FitOutcomes }

\* the override objects a head may be given
ParamObjects ==
    { ("C" :> PFloat(2 * One)),
      ("use_char_features" :> PBool(TRUE)),
      ("char_ngram_range" :> PList(<< 2, 5 >>)),
      ("char_min_df" :> PInt(2)),
      ("use_char_features" :> PBool(TRUE)) @@ ("char_ngram_range" :> PList(<< 2, 5 >>)),
      ("bogus" :> PInt(1)) @@ ("word_min_df" :> PInt(2)),
      ("strip_accents" :> PStr(<< "a", "s", "c", "i", "i" >>))
         @@ ("word_ngram_range" :> PList(<< 1, 3 >>))
         @@ ("word_min_df" :> PInt(2)) @@ ("C" :> PInt(2)),
      ("use_word_features" :> PBool(FALSE)) }

\* no --config
NoOverrides == [k \in {} |-> NoParams]

\* the overrides JSON files for column d: one object, filed under the column
\* name or under the head name
OverrideFiles(d) ==
    { NoOverrides } \cup
    { (key :> params) : key \in {d, name_of(d)}, params \in ParamObjects }

\* the label columns of the runs with an overrides file
OverrideColumns == DimensionNames \cup { << "v", "o", "d", "a" >> }

\* a bundle directory that an earlier run left behind
StaleBundle ==
    [hasModel |-> TRUE, hasConfig |-> TRUE,
     calib |-> PlattFile("dict", JNum(Dec(2 * One, 0)), JNum(Dec(250000, 0)))]

TrainStart ==
    /\ trainPc = "start"
    /\ idx = 1
    /\ calibration_params = IdentityParams
    /\ all_metrics = << >>
    /\ saved_paths = << >>
    /\ files_written = << >>
    /\ stderr = << >>
    /\ exit_code = -1
    /\ model_params = DefaultParams
    /\ stdout = << >>
    /\ pipeline = NoPipeline
    /\ curve = NoCurve

\* runs over any label columns and tables, without --config
InitRuns ==
    /\ train_csv \in {"missing", "ok"}
    /\ dimensions \in DimensionLists
    /\ \E n \in {0, MaxRows} :
         \E pos \in [1..Len(dimensions) -> {0, 1, 2, n}] :
            /\ \A i \in 1..Len(dimensions) : pos[i] <= n
            /\ df = [n |-> n, pos |-> pos]
    /\ \E stale \in {{}, {name_of(dimensions[i]) : i \in 1..Len(dimensions)}} :
         out_dir = [h \in stale |-> StaleBundle]
    /\ overrides = NoOverrides
    /\ TrainStart

\* runs over one two-class label column with an overrides file
InitOverrides ==
    /\ train_csv = "ok"
    /\ \E d \in OverrideColumns :
          /\ dimensions = << d >>
          /\ overrides \in OverrideFiles(d)
    /\ df = [n |-> MaxRows, pos |-> << 2 >>]
    /\ out_dir = [h \in {} |-> StaleBundle]
    /\ TrainStart

TrainInit == InitRuns \/ InitOverrides

\* the checks of main() before the loop, and parse_training_data
StartTraining ==
    /\ trainPc = "start"
    /\ IF train_csv = "missing" THEN trainPc' = "exit" /\ exit_code' = 2
       ELSE IF dimensions = << >> THEN trainPc' = "exit" /\ exit_code' = 1
       ELSE trainPc' = "loop" /\ exit_code' = exit_code
    /\ UNCHANGED << train_csv, dimensions, df, idx, calibration_params,
                    all_metrics, saved_paths, out_dir, files_written, stderr,
                    overrides, model_params, stdout, pipeline, curve >>
    /\ UNCHANGED evalVars

\* params, model_params and the char-feature warning; then
\* split = split_training_data(d, df, 0.2, 42); if split is None: continue
SplitHead ==
    /\ trainPc = "loop"
    /\ idx <= Len(dimensions)
    /\ LET single == SingleClass(Column(df.n, df.pos[idx]))
           to     == AfterSplit(single, idx)
       IN  /\ trainPc' = to.pc
           /\ idx' = to.idx
           /\ exit_code' = to.exit
           /\ all_metrics' = IF single
                             THEN Append(all_metrics, [d |-> dimensions[idx], skipped |-> TRUE])
                             ELSE all_metrics
    /\ LET params == Lookup(overrides, dimensions[idx])
       IN  /\ model_params' = MergeParams(params)
           /\ stdout' = IF CharWarning(params) THEN Append(stdout, dimensions[idx])
                        ELSE stdout
    /\ UNCHANGED << train_csv, dimensions, df, calibration_params, saved_paths,
                    out_dir, files_written, stderr, overrides, pipeline, curve >>
    /\ UNCHANGED evalVars

\* pipeline.fit raises on a one-class train fold: the run ends with a traceback
FitRaises ==
    /\ trainPc = "fit"
    /\ FitMayRaise(Column(df.n, df.pos[idx]))
    /\ MakeTextClassifier(model_params).built
    /\ pipeline' = MakeTextClassifier(model_params)
    /\ trainPc' = "exit"
    /\ exit_code' = 1
    /\ UNCHANGED << train_csv, dimensions, df, idx, calibration_params,
                    all_metrics, saved_paths, out_dir, files_written, stderr,
                    overrides, model_params, stdout, curve >>
    /\ UNCHANGED evalVars

\* make_text_classifier (SystemExit without word features), pipeline.fit, the
\* calibration and evaluate_head
FitHead ==
    /\ trainPc = "fit"
    /\ LET made == MakeTextClassifier(model_params)
       IN  IF made.built
           THEN /\ pipeline' = made
                /\ \E c \in Curves :
                      /\ curve' = c
                      /\ calibration_params' = Calibrate(c.bins, c.std, c.fit)
                /\ all_metrics' = Append(all_metrics,
                                         [d |-> dimensions[idx], skipped |-> FALSE])
                /\ trainPc' = "export"
                /\ exit_code' = exit_code
           ELSE /\ trainPc' = "exit"
                /\ exit_code' = 1
                /\ UNCHANGED << pipeline, curve, calibration_params, all_metrics >>
    /\ UNCHANGED << train_csv, dimensions, df, idx, saved_paths, out_dir,
                    files_written, stderr, overrides, model_params, stdout >>
    /\ UNCHANGED evalVars

\* onx = convert_sklearn(...), or "Failed to convert head" and return 1; the
\* reliability curve is not read past the calibration
ExportHead ==
    /\ trainPc = "export"
    /\ \E ok \in BOOLEAN :
         LET to == AfterExport(ok, idx)
         IN  /\ trainPc' = to.pc
             /\ idx' = to.idx
             /\ exit_code' = to.exit
             /\ stderr' = IF ok THEN stderr ELSE Append(stderr, dimensions[idx])
    /\ curve' = NoCurve
    /\ UNCHANGED << train_csv, dimensions, df, calibration_params, all_metrics,
                    saved_paths, out_dir, files_written, overrides, model_params,
                    stdout, pipeline >>
    /\ UNCHANGED evalVars

\* model.onnx, config.json and, unless identity, calibration.json
WriteBundle ==
    /\ trainPc = "write"
    /\ LET head  == name_of(dimensions[idx])
           old   == IF head \in DOMAIN out_dir THEN out_dir[head].calib
                    ELSE NoCalibrationFile
           calib == WritesCalibration(calibration_params)
           new   == [hasModel |-> TRUE, hasConfig |-> TRUE,
                     calib |-> IF calib THEN CalibrationJson(calibration_params)
                               ELSE old]
       IN  /\ out_dir' = [h \in DOMAIN out_dir \cup {head} |->
                            IF h = head THEN new ELSE out_dir[h]]
           /\ files_written' =
                files_written \o << << head, "model.onnx" >>, << head, "config.json" >> >>
                \o (IF calib THEN << << head, "calibration.json" >> >> ELSE << >>)
    /\ saved_paths' = Append(saved_paths, dimensions[idx])
    /\ idx' = idx + 1
    /\ trainPc' = "loop"
    /\ UNCHANGED << train_csv, dimensions, df, calibration_params, all_metrics,
                    stderr, exit_code, overrides, model_params, stdout, pipeline,
                    curve >>
    /\ UNCHANGED evalVars

\* training_summary(all_metrics); return 0
TrainDone ==
    /\ trainPc = "loop"
    /\ idx > Len(dimensions)
    /\ trainPc' = "exit"
    /\ exit_code' = 0
    /\ UNCHANGED << train_csv, dimensions, df, idx, calibration_params,
                    all_metrics, saved_paths, out_dir, files_written, stderr,
                    overrides, model_params, stdout, pipeline, curve >>
    /\ UNCHANGED evalVars

TrainNext ==
    \/ StartTraining
    \/ SplitHead
    \/ FitRaises
    \/ FitHead
    \/ ExportHead
    \/ WriteBundle
    \/ TrainDone


(***************************************************************************)
(* Specifications                                                           *)
(***************************************************************************)

\* no training run: the variables of onnx_train.py at rest
TrainIdle ==
    /\ train_csv = "ok"
    /\ dimensions = << >>
    /\ df = [n |-> 0, pos |-> << >>]
    /\ trainPc = "idle"
    /\ idx = 1
    /\ calibration_params = IdentityParams
    /\ all_metrics = << >>
    /\ saved_paths = << >>
    /\ out_dir = << >>
    /\ files_written = << >>
    /\ stderr = << >>
    /\ exit_code = -1
    /\ overrides = NoOverrides
    /\ model_params = DefaultParams
    /\ stdout = << >>
    /\ pipeline = NoPipeline
    /\ curve = NoCurve

\* no evaluation run: the variables of onnx_eval.py at rest
EvalIdle ==
    /\ base_dir = [kind |-> "missing", children |-> << >>]
    /\ args = Args([as_jsonl |-> TRUE, no_header |-> FALSE], << >>)
    /\ inputs = 0
    /\ evalPc = "idle"
    /\ sessions = << >>
    /\ thr_by_head = << >>
    /\ ti = 1
    /\ hi = 1
    /\ rec = << >>
    /\ header = << >>
    /\ written = [n |-> 0, keys |-> << >>]
    /\ last = NoEvaluation

InitEval == EvalInit /\ TrainIdle

InitTrain == TrainInit /\ EvalIdle

\* one run of onnx_eval.py
SpecEval == InitEval /\ [][EvalNext]_vars

\* one run of onnx_train.py
SpecTrain == InitTrain /\ [][TrainNext]_vars

(***************************************************************************)
(* Properties of an evaluation run (SpecEval)                              *)
(***************************************************************************)

\* a head has been evaluated: `last` holds the outcome of the latest pass
Evaluated == last.head # << >>

\* discover_onnx_models_dir has returned a map
Discovered ==
    evalPc \in {"parse_thresholds", "fatal_parse_thresholds", "header", "text",
                "heads", "done"}

\* the children of the base directory that are directories holding both files
QualifyingChildren ==
    {i \in 1..Len(base_dir.children) :
        /\ base_dir.children[i].isDir
        /\ base_dir.children[i].hasModel
        /\ base_dir.children[i].hasConfig}

QualifyingNames == {base_dir.children[i].name : i \in QualifyingChildren}

HeadSet == {sessions[i].head : i \in 1..Len(sessions)}

\* C1: with a calibration attached, the JSON-Lines loop and the CSV loop both
\* report sigmoid(a * logit(p_uncal) + b), the logit taken with the 1e-10
\* epsilon, and derive the label from that value.
C1_LogitInBothModes ==
    (Evaluated /\ last.calibration.set) =>
        /\ last.p = PlattLogit(last.raw, last.calibration)
        /\ last.label = Label(PlattLogit(last.raw, last.calibration), last.thr)

\* the --threshold specs that name head h, by position
OverridesOf(h) ==
    {i \in 1..Len(args.threshold) :
        LET spec == args.threshold[i]
            eq   == FindChar(spec, "=")
        IN  eq > 0 /\ SubSeq(spec, 1, eq - 1) = h}

\* the threshold head h is entitled to: the last override naming it, else 0.5
ExpectedThreshold(h) ==
    IF OverridesOf(h) = {} THEN Half
    ELSE LET i    == CHOOSE k \in OverridesOf(h) : \A j \in OverridesOf(h) : j <= k
             spec == args.threshold[i]
         IN  ParseFloat(SubSeq(spec, FindChar(spec, "=") + 1, Len(spec))).v

\* C2: the label of a head is 1 exactly when its (possibly calibrated)
\* probability is at least the head's threshold, which is 0.5 unless a
\* --threshold head=VALUE names the head; without calibration the probability
\* is the raw model output.
C2_LabelIffAtLeastThreshold ==
    Evaluated =>
        /\ last.thr = ExpectedThreshold(last.head)
        /\ last.label \in {0, 1}
        /\ (last.label = 1) <=> FloatGE(last.p, Fin(ExpectedThreshold(last.head)))
        /\ ~last.calibration.set => last.p = Fin(last.raw)

\* C2 at work: voda=0.8 given, voda's raw output 0.95 reported with label 1
\* behind risk, which kept the default 0.5
C2_Witness ==
    /\ Evaluated
    /\ last.head = << "v", "o", "d", "a" >>
    /\ rec = << << "r", "i", "s", "k" >>, << "v", "o", "d", "a" >> >>
    /\ last.thr = 800000
    /\ thr_by_head[<< "r", "i", "s", "k" >>] = Half
    /\ last.p = Fin(950000)
    /\ last.label = 1

\* C3: the heads are discovered in case-insensitive name order, and every
\* record and the CSV header list them in that order.
C3_CaseInsensitiveOrder ==
    LET hs == Heads(sessions)
    IN  /\ \A i, j \in 1..Len(hs) : i < j => ~StrLess(Lower(hs[j]), Lower(hs[i]))
        /\ IsPrefix(rec, hs)
        /\ header \in {<< >>, hs}
        /\ written.n > 0 => written.keys = hs
        /\ (evalPc \in {"text", "heads", "done"} /\ ~args.as_jsonl /\ ~args.no_header)
              => header = hs

\* C3 at work: risk, Address, voda as the directory lists them come out as
\* Address, risk, voda in a written record
C3_Witness ==
    /\ Len(base_dir.children) = 3
    /\ [i \in 1..3 |-> base_dir.children[i].name] =
          << << "r", "i", "s", "k" >>, << "A", "d", "d", "r", "e", "s", "s" >>,
             << "v", "o", "d", "a" >> >>
    /\ written.n > 0
    /\ written.keys =
          << << "A", "d", "d", "r", "e", "s", "s" >>, << "r", "i", "s", "k" >>,
             << "v", "o", "d", "a" >> >>

\* the base directory without the children that do not qualify
OnlyQualifying ==
    [base_dir EXCEPT !.children =
        SelectSeq(base_dir.children,
                  LAMBDA c : c.isDir /\ c.hasModel /\ c.hasConfig)]

\* C4: a child of the base directory becomes a head exactly when it is a
\* directory holding both model.onnx and config.json; the other children are
\* skipped without an error: discovery ends as it would without them.
C4_QualifiesIffBothFiles ==
    /\ Discovered => HeadSet = QualifyingNames /\ Len(sessions) = Cardinality(QualifyingNames)
    /\ evalPc = "fatal_discover" => Discover(OnlyQualifying).fatal
    /\ Discovered => Discover(OnlyQualifying).bundles = sessions

\* C4 at work: one bundle and one directory without config.json give one head
C4_Witness ==
    /\ Discovered
    /\ Len(base_dir.children) = 2
    /\ \E i \in 1..2 :
          /\ base_dir.children[i].isDir
          /\ base_dir.children[i].hasModel
          /\ ~base_dir.children[i].hasConfig
    /\ Len(sessions) = 1

\* discovery is over, with a map or with the run ended
AfterDiscovery == Discovered \/ evalPc = "fatal_discover"

Unbuildable ==
    {i \in QualifyingChildren :
        \/ base_dir.children[i].config # "ok"
        \/ ~base_dir.children[i].model.loads
        \/ "array" \in {base_dir.children[i].names.input.t,
                        base_dir.children[i].names.output.t}}

WellFormedCalibration(f) ==
    /\ f.exists
    /\ f.parses
    /\ f.isObject
    /\ f.ctype = "platt"
    /\ f.params = "dict"
    /\ f.a.t = "num"
    /\ f.b.t = "num"

\* C6: a bundle carries a calibration exactly when its calibration.json is
\* well formed, and then with the file's a and b; a missing, unparseable or
\* shapeless file leaves the head uncalibrated and never ends the run.
C6_CalibrationOnlyWhenWellFormed ==
    Discovered =>
        \A i \in 1..Len(sessions) :
            \A j \in QualifyingChildren :
                base_dir.children[j].name = sessions[i].head =>
                    LET f == base_dir.children[j].calib
                    IN  /\ sessions[i].calibration.set <=> WellFormedCalibration(f)
                        /\ sessions[i].calibration.set =>
                              sessions[i].calibration = Calibration(f.a.d, f.b.d)

\* the two probabilities differ by less than 1e-5, the arithmetic's resolution
Close(p, q) ==
    /\ p.k = "fin"
    /\ q.k = "fin"
    /\ Abs(p.v - q.v) < 10

\* C8: a head whose calibration is the identity (a = 1, b = 0) is reported as
\* the same head without a calibration file would be, in both output modes:
\* the raw probability and the label derived from it.
C8_IdentityIsNoCalibration ==
    (Evaluated /\ last.calibration = Calibration(Dec(One, 0), Dec(0, 0))) =>
        /\ Close(last.p, Probability(args.as_jsonl, last.raw, None))
        /\ last.label = Label(Probability(args.as_jsonl, last.raw, None), last.thr)

(***************************************************************************)
(* Properties of a training run (SpecTrain)                                *)
(***************************************************************************)

\* x differs from y by at least 1e-9
DiffersBeyondTolerance(x, y) ==
    \/ Abs(x.m - y.m) >= 2
    \/ Abs((x.m - y.m) * TicksPerMicro + (x.r - y.r)) >= TolTicks

\* C7: the exporter writes calibration.json for a head exactly when a differs
\* from 1 or b from 0 by at least 1e-9; identity parameters, from the
\* degenerate case or a failed fit, are never written.
C7_WritesIffNotIdentity ==
    [][trainPc = "write" =>
        LET head   == name_of(dimensions[idx])
            fresh  == SubSeq(files_written', Len(files_written) + 1,
                             Len(files_written'))
            wrote  == \E k \in 1..Len(fresh) : fresh[k] = << head, "calibration.json" >>
            differs == \/ DiffersBeyondTolerance(calibration_params.a, Dec(One, 0))
                       \/ DiffersBeyondTolerance(calibration_params.b, Dec(0, 0))
        IN  /\ wrote <=> differs
            /\ wrote => out_dir'[head].calib = CalibrationJson(calibration_params)
            /\ calibration_params.type = "identity" => ~wrote
            /\ ~wrote => out_dir'[head].calib =
                            (IF head \in DOMAIN out_dir THEN out_dir[head].calib
                             ELSE NoCalibrationFile)]_vars

\* C7 at work: a = 1 + 1e-9 was written, a = 1 + 5e-10 with b = -5e-10 was not
C7_Witness ==
    /\ trainPc = "loop"
    /\ Len(saved_paths) = 2
    /\ calibration_params.a = Dec(One, 5)
    /\ \E k \in 1..Len(files_written) :
          files_written[k] = << name_of(saved_paths[1]), "calibration.json" >>
    /\ \A k \in 1..Len(files_written) :
          files_written[k] # << name_of(saved_paths[2]), "calibration.json" >>
    /\ out_dir[name_of(saved_paths[1])].calib.a = JNum(Dec(One, 10))

\* column i of the training table holds fewer than two distinct labels
OneClassColumn(i) == df.pos[i] = 0 \/ df.pos[i] = df.n

MetricsOf(d) == {k \in 1..Len(all_metrics) : all_metrics[k].d = d}

FilesOf(d) == {k \in 1..Len(files_written) : files_written[k][1] = name_of(d)}

SavedSet == {saved_paths[k] : k \in 1..Len(saved_paths)}

RECURSIVE TrainableFrom(_)
\* the dimensions from position i on that hold two classes, in order
TrainableFrom(i) ==
    IF i > Len(dimensions) THEN << >>
    ELSE (IF OneClassColumn(i) THEN << >> ELSE << dimensions[i] >>)
         \o TrainableFrom(i + 1)

\* C9: a label column with fewer than two distinct values is skipped: it is
\* marked skipped, nothing is fitted, exported or written for it, and the run
\* goes on to the next head; the skip alone never makes the run fail.
C9_SingleClassSkipped ==
    /\ \A i \in 1..Len(dimensions) :
          (OneClassColumn(i) /\ trainPc # "start" /\ train_csv = "ok") =>
              /\ dimensions[i] \notin SavedSet
              /\ FilesOf(dimensions[i]) = {}
              /\ \A k \in MetricsOf(dimensions[i]) : all_metrics[k].skipped
              /\ i < idx => MetricsOf(dimensions[i]) # {}
              /\ i = idx => trainPc = "loop"
    /\ \A k \in 1..Len(all_metrics) :
          all_metrics[k].skipped <=>
              \E i \in 1..Len(dimensions) :
                  dimensions[i] = all_metrics[k].d /\ OneClassColumn(i)
    /\ (trainPc = "exit" /\ exit_code = 0) =>
          /\ saved_paths = TrainableFrom(1)
          /\ [k \in 1..Len(all_metrics) |-> all_metrics[k].d] = dimensions
    /\ (trainPc = "exit" /\ exit_code = 1 /\ dimensions # << >>) =>
          /\ idx <= Len(dimensions)
          /\ ~OneClassColumn(idx)

\* C9 at work: the first column holds one class, the second was trained and
\* saved, and the run ended with 0
C9_Witness ==
    /\ trainPc = "exit"
    /\ exit_code = 0
    /\ Len(dimensions) = 2
    /\ df.n > 0
    /\ OneClassColumn(1)
    /\ all_metrics[1] = [d |-> dimensions[1], skipped |-> TRUE]
    /\ saved_paths = << dimensions[2] >>

\* C10: when the ONNX conversion of a head fails the run ends at once with
\* exit code 1: the failure is reported for that head, no bundle is written
\* for it, and no later head is split, trained or written.
C10_ExportFailureAborts ==
    stderr # << >> =>
        /\ trainPc = "exit"
        /\ exit_code = 1
        /\ stderr = << dimensions[idx] >>
        /\ dimensions[idx] \notin SavedSet
        /\ FilesOf(dimensions[idx]) = {}
        /\ \A j \in (idx + 1)..Len(dimensions) :
              /\ MetricsOf(dimensions[j]) = {}
              /\ dimensions[j] \notin SavedSet
              /\ FilesOf(dimensions[j]) = {}

\* C10 at work: the conversion of the first of two trainable heads failed
C10_Witness ==
    /\ stderr # << >>
    /\ idx = 1
    /\ Len(dimensions) = 2
    /\ ~OneClassColumn(2)
    /\ exit_code = 1
    /\ files_written = << >>

\* the iteration of column i has passed the char-feature warning and the split
Prepared(i) ==
    /\ train_csv = "ok"
    /\ trainPc \notin {"start", "idle"}
    /\ i < idx \/ (i = idx /\ trainPc # "loop")

\* an override object asks for character-level features: the enabling flag, or
\* one of the character-feature keys
CharRequested(params) ==
    \/ Truthy(Get(params, "use_char_features"))
    \/ "char_ngram_range" \in DOMAIN params
    \/ "char_min_df" \in DOMAIN params

\* C11: every request for character-level features in a head's overrides,
\* the enabling flag alone included, is answered with a warning, and the
\* pipeline built uses word-level features only.
C11_CharRequestWarned ==
    \A i \in 1..Len(dimensions) :
        Prepared(i) =>
            /\ CharRequested(Lookup(overrides, dimensions[i])) =>
                  \E k \in 1..Len(stdout) : stdout[k] = dimensions[i]
            /\ pipeline.built => pipeline.analyzer = "word"

\* the column whose parameters model_params holds
LatestPrepared ==
    IF idx > Len(dimensions) \/ trainPc = "loop" THEN idx - 1 ELSE idx

\* the override object filed under the head name of column d
GivenFor(d) ==
    IF name_of(d) \in DOMAIN overrides THEN overrides[name_of(d)] ELSE NoParams

\* C12: the override object filed under a head's name sets that head's
\* accent stripping, n-gram range, min document frequency and regularization
\* strength, whatever the label column is called; the other parameters keep
\* their defaults and unknown keys add nothing.
C12_OverridesByHeadName ==
    (LatestPrepared >= 1 /\ Prepared(LatestPrepared)) =>
        LET given == GivenFor(dimensions[LatestPrepared])
        IN  /\ DOMAIN model_params = DOMAIN DefaultParams
            /\ \A k \in {"strip_accents", "word_ngram_range", "word_min_df", "C"} :
                  model_params[k] =
                      (IF k \in DOMAIN given THEN given[k] ELSE DefaultParams[k])
            /\ trainPc \in {"export", "write"} =>
                  /\ pipeline.strip_accents = model_params["strip_accents"]
                  /\ pipeline.ngram_range = model_params["word_ngram_range"].l
                  /\ pipeline.min_df = model_params["word_min_df"].n
                  /\ pipeline.C = ToFloat(model_params["C"])

\* x lies in [-10, 10]
InBounds(x) ==
    /\ x.m <= FitBound * One
    /\ x.m >= -FitBound * One
    /\ x.m = FitBound * One => x.r <= 0
    /\ x.m = -FitBound * One => x.r >= 0

\* C13: the calibration parameters of every head have a and b in [-10, 10]:
\* exactly the identity (1, 0) when fewer than 3 bins are occupied, when the
\* standard deviation of the bin means is below 0.01 or when the fit fails,
\* and otherwise the result of the fit, kept within [-10, 10].
C13_CalibrationBounded ==
    /\ InBounds(calibration_params.a)
    /\ InBounds(calibration_params.b)
    /\ curve # NoCurve =>
          IF curve.bins < MinBins \/ curve.std < MinStd \/ ~curve.fit.ok
          THEN calibration_params =
                  [a |-> Dec(One, 0), b |-> Dec(0, 0), type |-> "identity"]
          ELSE /\ calibration_params.type = "platt_scaling"
               /\ InBounds(curve.fit.a) => calibration_params.a = curve.fit.a
               /\ InBounds(curve.fit.b) => calibration_params.b = curve.fit.b

\* C13 at work: a least-squares estimate of a = -12 on a curve with 3 bins
\* and standard deviation 0.01 is reported as a = -10
C13_Witness ==
    /\ trainPc = "export"
    /\ curve.bins = MinBins
    /\ curve.std = MinStd
    /\ curve.fit.ok
    /\ curve.fit.a = Dec(-12 * One, 0)
    /\ calibration_params.a = Dec(-FitBound * One, 0)
    /\ calibration_params.type = "platt_scaling"

\* the smallest member of a non-empty set of positions
First(S) == CHOOSE i \in S : \A j \in S : i <= j

\* the bundle directory a session was built from
ChildOf(k) ==
    base_dir.children[CHOOSE i \in QualifyingChildren :
                         base_dir.children[i].name = sessions[k].head]

\* config.json declares this tensor name and the list holds a tensor of it
Exposes(tensors, declared) ==
    declared.t = "str" /\ \E i \in 1..Len(tensors) : tensors[i].name = declared.s

\* the positions of the tensors of a list that satisfy P
Positions(tensors, P(_)) == {i \in 1..Len(tensors) : P(tensors[i])}

\* C14: the input tensor name of a session is the name config.json declares
\* if and only if the graph has an input of that name; otherwise it is the
\* name of the first string-typed input, and without one the first input.
C14_InputNamePriority ==
    Discovered =>
      \A k \in 1..Len(sessions) :
        LET ins == ChildOf(k).model.inputs
            declared == ChildOf(k).names.input
            strings == Positions(ins, LAMBDA a : a.type = TString)
            input_name == sessions[k].input_name
        IN  /\ Exposes(ins, declared) => input_name = declared.s
            /\ (declared.t = "str" /\ input_name = declared.s)
                  => Exposes(ins, declared)
            /\ ~Exposes(ins, declared) =>
                  input_name = IF strings # {} THEN ins[First(strings)].name
                               ELSE ins[1].name

\* C14 at work: config.json declares an input the graph does not have, the
\* graph's string input is its second, and the session feeds that one
C14_Witness ==
    /\ Discovered
    /\ Len(sessions) = 1
    /\ ChildOf(1).names.input = JStr(NOther)
    /\ Len(ChildOf(1).model.inputs) = 2
    /\ ChildOf(1).model.inputs[1].type = TInt64
    /\ ChildOf(1).model.inputs[2].type = TString
    /\ sessions[1].input_name = NText

\* the name the output heuristics give, by what counts as a name holding
\* "prob" and as a two-class floating-point output
OutputByPriority(outs, declared, Prob(_), Two(_)) ==
    IF Exposes(outs, declared) THEN declared.s
    ELSE IF Len(outs) = 1 THEN outs[1].name
    ELSE IF Positions(outs, Prob) # {} THEN outs[First(Positions(outs, Prob))].name
    ELSE IF Positions(outs, Two) # {} THEN outs[First(Positions(outs, Two))].name
    ELSE outs[1].name

\* C15 as stated: the output tensor name is, in this order, the declared
\* name if the graph has it, the only output, the first output whose name
\* contains "prob", the first floating-point output whose final or second
\* dimension is 2, the first output.
C15_OutputNamePriority ==
    Discovered =>
      \A k \in 1..Len(sessions) :
        sessions[k].output_prob =
          OutputByPriority(
            ChildOf(k).model.outputs, ChildOf(k).names.output,
            LAMBDA o : Contains(o.name, << "p", "r", "o", "b" >>),
            LAMBDA o : /\ o.type \in {TFloat, TDouble}
                       /\ \/ o.shape[Len(o.shape)] = 2
                          \/ Len(o.shape) >= 2 /\ o.shape[2] = 2)

\* C15 as the code has it: "prob" is looked for in the lower-cased name, and
\* the two-class output is one whose type string contains "float" and whose
\* shape has at least two dimensions, the final or the second being 2.
C15_OutputNamePriorityAnyCase ==
    Discovered =>
      \A k \in 1..Len(sessions) :
        sessions[k].output_prob =
          OutputByPriority(
            ChildOf(k).model.outputs, ChildOf(k).names.output,
            LAMBDA o : Contains(Lower(o.name), << "p", "r", "o", "b" >>),
            LAMBDA o : /\ o.type = TFloat
                       /\ Len(o.shape) >= 2
                       /\ o.shape[Len(o.shape)] = 2 \/ o.shape[2] = 2)

\* C15 at work: config.json declares an output the graph does not have, and
\* of the outputs label and PROB the session reads PROB
C15_Witness ==
    /\ Discovered
    /\ Len(sessions) = 1
    /\ ~Exposes(ChildOf(1).model.outputs, ChildOf(1).names.output)
    /\ Len(ChildOf(1).model.outputs) = 2
    /\ ChildOf(1).model.outputs[2].name = NProbUpper
    /\ sessions[1].output_prob = NProbUpper

\* every session's tensor names are names of its graph
NamesExposed ==
    \A k \in 1..Len(sessions) :
      /\ sessions[k].input_name \in NamesOf(ChildOf(k).model.inputs)
      /\ sessions[k].output_prob \in NamesOf(ChildOf(k).model.outputs)

\* the base directory holds bundles, each with a graph that loads and a
\* config.json whose status is one of these
BundlesWith(statuses) ==
    /\ base_dir.kind = "dir"
    /\ QualifyingChildren # {}
    /\ \A i \in QualifyingChildren :
          /\ base_dir.children[i].model.loads
          /\ base_dir.children[i].config \in statuses

Scalars(names) == {names.input.t, names.output.t} \subseteq {"str", "num", "null"}

FailsNumerically(raw) == raw <= 0 \/ raw > One

\* C17: when a head has calibration and the logit-then-sigmoid transform
\* fails numerically for a raw probability, the probability reported and
\* thresholded for that call is the raw probability.
C17_FallsBackToRaw ==
    (Evaluated /\ last.calibration.set /\ FailsNumerically(last.raw)) =>
        /\ last.p = Fin(last.raw)
        /\ last.label = Label(Fin(last.raw), last.thr)

\* C18: once a run has written the bundle of a head into the output
\* directory, whatever earlier runs left there, the bundle directory holds a
\* calibration file if and only if the calibration this run fitted for the
\* head is not the identity; after an identity fit inference finds no
\* calibration to apply.
C18_NoStaleCalibration ==
    (trainPc = "loop" /\ saved_paths # << >>) =>
        LET head    == name_of(saved_paths[Len(saved_paths)])
            differs == \/ DiffersBeyondTolerance(calibration_params.a, Dec(One, 0))
                       \/ DiffersBeyondTolerance(calibration_params.b, Dec(0, 0))
        IN  /\ out_dir[head].calib.exists <=> differs
            /\ ~differs => ~LoadCalibration(out_dir[head].calib).set

=============================================================================
